---- MODULE Spec2Model ----
(***************************************************************************)
(* HikariSqlExecutor.execute (com.openblocks.plugin.sql): one call of      *)
(* execute against a JDBC connection, as a state machine with one step per *)
(* driver interaction.  The driver is the environment: the outcomes it     *)
(* reports are drawn in Init, whether a driver call throws is drawn at the *)
(* call.                                                                   *)
(***************************************************************************)
EXTENDS Integers, Sequences, FiniteSets, TLC

\* ---------------------------------------------------------------- bounds
\* Longest raw template, in tokens (literal text or {{placeholder}}).
MaxTokens == 2
\* Longest sequence of outcomes (result sets, update counts) of one execution.
MaxOutcomes == 2
MaxNotifications == 3

\* ------------------------------------------------- java values (Object)
\* A class: its Class.getName, how it is declared ("top", "member", "local",
\* "anonymous", "primitive" or "array"), the name of the class that encloses
\* it ("" for none), and for an array class its component class.
TopLevel(name) == [name |-> name, declared |-> "top", enclosing |-> ""]
Member(enclosing, simpleName) ==
  [name |-> enclosing \o "$" \o simpleName, declared |-> "member",
   enclosing |-> enclosing]
Local(enclosing, n, simpleName) ==
  [name |-> enclosing \o "$" \o ToString(n) \o simpleName, declared |-> "local",
   enclosing |-> enclosing]
Anonymous(enclosing, n) ==
  [name |-> enclosing \o "$" \o ToString(n), declared |-> "anonymous",
   enclosing |-> enclosing]
Primitive(name) == [name |-> name, declared |-> "primitive", enclosing |-> ""]

\* The letter of a primitive type in the name of an array class.
PrimitiveLetter ==
  [t \in {"boolean", "byte", "char", "double", "float", "int", "long", "short"} |->
     CASE t = "boolean" -> "Z" [] t = "byte" -> "B" [] t = "char" -> "C"
       [] t = "double" -> "D" [] t = "float" -> "F" [] t = "int" -> "I"
       [] t = "long" -> "J" [] t = "short" -> "S"]
ArrayOf(component) ==
  [name |-> "[" \o (CASE component.declared = "primitive" ->
                           PrimitiveLetter[component.name]
                      [] component.declared = "array" -> component.name
                      [] OTHER -> "L" \o component.name \o ";"),
   declared |-> "array", enclosing |-> "", component |-> component]

\* A text without the digits it starts with.
RECURSIVE DropDigits(_)
DropDigits(s) ==
  IF Len(s) > 0 /\ SubSeq(s, 1, 1) \in {"0", "1", "2", "3", "4", "5", "6", "7", "8", "9"}
  THEN DropDigits(SubSeq(s, 2, Len(s)))
  ELSE s

\* What follows the last "." of a name, the name itself if it has none.
RECURSIVE AfterLastDot(_)
AfterLastDot(name) ==
  LET dots == {i \in 1..Len(name) : SubSeq(name, i, i) = "."}
  IN IF dots = {} THEN name
     ELSE AfterLastDot(SubSeq(name, (CHOOSE i \in dots : TRUE) + 1, Len(name)))

\* Class.getSimpleName: an array class has its component's simple name and
\* "[]"; an anonymous class has ""; a member or local class has what follows
\* its enclosing class's name and "$", a local class without the leading
\* digits; a top-level class has what follows the package; a primitive type
\* has its name.
RECURSIVE getSimpleName(_)
getSimpleName(class) ==
  CASE class.declared = "array" -> getSimpleName(class.component) \o "[]"
    [] class.declared = "anonymous" -> ""
    [] class.declared = "member" ->
         SubSeq(class.name, Len(class.enclosing) + 2, Len(class.name))
    [] class.declared = "local" ->
         DropDigits(SubSeq(class.name, Len(class.enclosing) + 2, Len(class.name)))
    [] class.declared = "top" -> AfterLastDot(class.name)
    [] OTHER -> class.name

\* A value is [class |-> its class, kind |-> the class's simple
\* name, v |-> its content, implements |-> those of the interfaces Map and
\* Collection its class implements]; null has no class and no content.
NullV == [kind |-> "null"]
Object(class, v) ==
  [class |-> class, kind |-> getSimpleName(class), v |-> v, implements |-> {}]
IntegerV(n) == Object(TopLevel("java.lang.Integer"), n)
LongV(n) == Object(TopLevel("java.lang.Long"), n)
\* A float or double holding tenths/10 (a zero of either sign), or NaN, or an
\* infinity.
Finite(t) == [nan |-> FALSE, infinite |-> FALSE, negative |-> t < 0, tenths |-> t]
NegativeZero == [nan |-> FALSE, infinite |-> FALSE, negative |-> TRUE, tenths |-> 0]
NaN == [nan |-> TRUE, infinite |-> FALSE, negative |-> FALSE, tenths |-> 0]
Infinity == [nan |-> FALSE, infinite |-> TRUE, negative |-> FALSE, tenths |-> 0]
FloatV(t) == Object(TopLevel("java.lang.Float"), Finite(t))
DoubleV(t) == Object(TopLevel("java.lang.Double"), Finite(t))
DoubleNaN == Object(TopLevel("java.lang.Double"), NaN)
FloatInfinity == Object(TopLevel("java.lang.Float"), Infinity)
DoubleNegativeZero == Object(TopLevel("java.lang.Double"), NegativeZero)
BooleanV(b) == Object(TopLevel("java.lang.Boolean"), b)
\* A map of one entry, key -> integer, of a class that implements Map.
MapOfClass(class, k, n) ==
  [class |-> class, kind |-> getSimpleName(class), v |-> <<k, n>>,
   implements |-> {"Map"}]
MapV(k, n) == MapOfClass(TopLevel("java.util.HashMap"), k, n)
\* A collection of integers, in its iteration order, of a class that
\* implements Collection.
CollectionOfClass(class, s) ==
  [class |-> class, kind |-> getSimpleName(class), v |-> s,
   implements |-> {"Collection"}]
ListV(s) == CollectionOfClass(TopLevel("java.util.ArrayList"), s)
StringV(s) == Object(TopLevel("java.lang.String"), s)
\* Classes bindParam has no branch for; the last one shares its simple name
\* with java.lang.Double.
BytesV == Object(ArrayOf(Primitive("byte")), <<1, 2>>)
BigIntegerV == Object(TopLevel("java.math.BigInteger"), 0)
Point2DDoubleV == Object(Member("java.awt.geom.Point2D", "Double"), <<0, 0>>)

\* value instanceof C for a final class C: the value's class is C.
InstanceOfClass(value, class) ==
  "class" \in DOMAIN value /\ value.class.name = class
\* value instanceof Map, value instanceof Collection: the test is on the
\* interfaces the value's class implements, whatever the class is called.
InstanceOf(value, interface) ==
  "implements" \in DOMAIN value /\ interface \in value.implements
InstanceOfMap(value) == InstanceOf(value, "Map")
InstanceOfCollection(value) == InstanceOf(value, "Collection")

\* The values of the first request parameter; one map class shares its
\* simple name with java.lang.Integer.
Values ==
  { NullV, IntegerV(7), LongV(2147483647), FloatV(5), DoubleV(-20), DoubleNaN,
    FloatInfinity, DoubleV(100000000), BooleanV(TRUE), MapV("a", 1),
    DoubleNegativeZero, MapOfClass(TopLevel("org.example.Integer"), "b", 2),
    ListV(<<1, 2>>), StringV("x"), BytesV }

\* The values of the second request parameter.
OtherValues == { StringV("y"), IntegerV(8), BigIntegerV, Point2DDoubleV }

\* --------------------------------------------------------- text helpers
Abs(n) == IF n < 0 THEN -n ELSE n

\* Digits without their trailing zeros, "0" when nothing is left.
RECURSIVE FractionDigits(_)
FractionDigits(digits) ==
  IF Len(digits) = 0 THEN "0"
  ELSE IF SubSeq(digits, Len(digits), Len(digits)) = "0"
       THEN FractionDigits(SubSeq(digits, 1, Len(digits) - 1))
       ELSE digits

\* String.valueOf(float|double) for a value with one decimal digit, NaN or an
\* infinity: "-" for a negative value and for the negative zero, then digits
\* "." digit below 10^7, and from there on d.ddd "E" exponent.
StringValueOf(d) ==
  IF d.nan THEN "NaN"
  ELSE IF d.infinite THEN (IF d.negative THEN "-Infinity" ELSE "Infinity")
  ELSE LET sign == IF d.negative THEN "-" ELSE ""
           digits == ToString(Abs(d.tenths))
       IN IF Abs(d.tenths) \div 10 < 10000000
          THEN sign \o ToString(Abs(d.tenths) \div 10) \o "."
                \o ToString(Abs(d.tenths) % 10)
          ELSE sign \o SubSeq(digits, 1, 1) \o "."
                \o FractionDigits(SubSeq(digits, 2, Len(digits)))
                \o "E" \o ToString(Len(digits) - 2)

IsDigit(c) == \E n \in 0..9 : ToString(n) = c
DigitOf(c) == CHOOSE n \in 0..9 : ToString(n) = c

RECURSIVE AllDigits(_)
AllDigits(s) ==
  IF Len(s) = 0 THEN TRUE
  ELSE IsDigit(SubSeq(s, 1, 1)) /\ AllDigits(SubSeq(s, 2, Len(s)))

RECURSIVE ParseNat(_)
ParseNat(s) ==
  IF Len(s) = 0 THEN 0
  ELSE 10 * ParseNat(SubSeq(s, 1, Len(s) - 1)) + DigitOf(SubSeq(s, Len(s), Len(s)))

IsSign(c) == c \in {"-", "+"}
Signed(s) == Len(s) > 0 /\ IsSign(SubSeq(s, 1, 1))
Unsigned(s) == IF Signed(s) THEN SubSeq(s, 2, Len(s)) ELSE s
Negative(s) == Len(s) > 0 /\ SubSeq(s, 1, 1) = "-"

\* new BigDecimal(String): [ok, unscaled, scale]; ok = FALSE is the
\* NumberFormatException.  An optional sign, digits with at most one decimal
\* point, and an optional exponent: e or E, an optional sign, digits.
NewBigDecimal(s) ==
  LET rest == Unsigned(s)
      marks == {i \in 1..Len(rest) : SubSeq(rest, i, i) \in {"e", "E"}}
      mark == IF marks = {} THEN Len(rest) + 1
              ELSE CHOOSE i \in marks : \A j \in marks : i <= j
      body == SubSeq(rest, 1, mark - 1)
      exponent == SubSeq(rest, mark + 1, Len(rest))
      dots == {i \in 1..Len(body) : SubSeq(body, i, i) = "."}
      dot == IF dots = {} THEN Len(body) + 1 ELSE CHOOSE i \in dots : TRUE
      ip == SubSeq(body, 1, dot - 1)
      fp == SubSeq(body, dot + 1, Len(body))
      wellFormed == /\ Cardinality(dots) <= 1
                    /\ Len(ip) + Len(fp) > 0
                    /\ AllDigits(ip) /\ AllDigits(fp)
                    /\ marks # {} =>
                         /\ Len(Unsigned(exponent)) > 0
                         /\ AllDigits(Unsigned(exponent))
  IN IF ~wellFormed THEN [ok |-> FALSE, unscaled |-> 0, scale |-> 0]
     ELSE [ok |-> TRUE,
           unscaled |-> (IF Negative(s) THEN -1 ELSE 1) * ParseNat(ip \o fp),
           scale |-> Len(fp) - (IF Negative(exponent) THEN -1 ELSE 1)
                                 * ParseNat(Unsigned(exponent))]

RECURSIVE JoinInts(_)
JoinInts(s) ==
  IF Len(s) = 0 THEN ""
  ELSE IF Len(s) = 1 THEN ToString(s[1])
  ELSE ToString(s[1]) \o "," \o JoinInts(Tail(s))

\* JsonUtils.toJson of a map of one integer entry or of a list of integers.
toJson(value) ==
  IF InstanceOfMap(value)
  THEN "{\"" \o value.v[1] \o "\":" \o ToString(value.v[2]) \o "}"
  ELSE "[" \o JoinInts(value.v) \o "]"

\* ------------------------------------------------------------ exceptions
\* An exception: its class, and for a PluginException its error code, message
\* key and message arguments.
NoException == [class |-> "none", error |-> "", messageKey |-> "", args |-> <<>>]
SQLException == [class |-> "SQLException", error |-> "", messageKey |-> "", args |-> <<>>]
NumberFormatException ==
  [class |-> "NumberFormatException", error |-> "", messageKey |-> "", args |-> <<>>]
PluginException(error, messageKey, args) ==
  [class |-> "PluginException", error |-> error, messageKey |-> messageKey, args |-> args]

\* ExceptionUtils.wrapException: a PluginException passes through unchanged,
\* anything else becomes a PluginException of the given error whose argument
\* is the cause's class.
wrapException(error, messageKey, e) ==
  IF e.class = "PluginException" THEN e
  ELSE PluginException(error, messageKey, <<e.class>>)

\* ------------------------------------------------------------- templates
\* A raw template is a sequence of tokens: literal sql text, or a {{key}}.
Lit(t) == [mustache |-> FALSE, text |-> t]
Key(k) == [mustache |-> TRUE, text |-> k]
Tokens == { Lit("select 1 "), Key("a"), Key("b"), Key("c") }

RECURSIVE SeqsUpTo(_, _)
SeqsUpTo(S, n) ==
  IF n = 0 THEN {<<>>}
  ELSE LET shorter == SeqsUpTo(S, n - 1)
       IN shorter \cup {Append(s, x) : s \in {t \in shorter : Len(t) = n - 1}, x \in S}

Templates == SeqsUpTo(Tokens, MaxTokens)

\* MustacheHelper.extractMustacheKeysInOrder: the placeholder names in order
\* of occurrence, repeats kept.
RECURSIVE extractMustacheKeysInOrder(_)
extractMustacheKeysInOrder(query) ==
  IF query = <<>> THEN <<>>
  ELSE (IF Head(query).mustache THEN <<Head(query).text>> ELSE <<>>)
       \o extractMustacheKeysInOrder(Tail(query))

\* Map.get: null for an absent key.
MapGet(m, k) == IF k \in DOMAIN m THEN m[k] ELSE NullV

\* MustacheHelper.doPrepareStatement: every placeholder becomes "?".
RECURSIVE doPrepareStatement(_, _, _)
doPrepareStatement(query, mustacheKeysInOrder, requestParams) ==
  IF query = <<>> THEN ""
  ELSE (IF Head(query).mustache THEN "?" ELSE Head(query).text)
       \o doPrepareStatement(Tail(query), mustacheKeysInOrder, requestParams)

\* The textual form a placeholder's value takes in text mode.
TextOf(value) ==
  IF value = NullV THEN ""
  ELSE IF InstanceOfClass(value, "java.lang.Integer")
            \/ InstanceOfClass(value, "java.lang.Long")
  THEN ToString(value.v)
  ELSE IF InstanceOfClass(value, "java.lang.Float")
            \/ InstanceOfClass(value, "java.lang.Double")
  THEN StringValueOf(value.v)
  ELSE IF InstanceOfClass(value, "java.lang.Boolean")
  THEN (IF value.v THEN "true" ELSE "false")
  ELSE IF InstanceOfMap(value) \/ InstanceOfCollection(value) THEN toJson(value)
  ELSE IF InstanceOfClass(value, "java.lang.String") THEN value.v
  ELSE value.kind

\* MustacheHelper.renderMustacheString: every placeholder becomes the text
\* of its value.
RECURSIVE renderMustacheString(_, _)
renderMustacheString(query, requestParams) ==
  IF query = <<>> THEN ""
  ELSE (IF Head(query).mustache THEN TextOf(MapGet(requestParams, Head(query).text))
        ELSE Head(query).text)
       \o renderMustacheString(Tail(query), requestParams)

\* ---------------------------------------------------- structured command
\* A GuiSqlCommand, by what its render does: the sql and bind values it
\* returns, and whether it writes to the map it is handed.
GuiSqlCommand(sql, bindParams, mutates) ==
  [kind |-> "GuiSqlCommand", sql |-> sql, bindParams |-> bindParams,
   mutates |-> mutates]

GuiSqlCommands ==
  { GuiSqlCommand("insert into t values (?)", <<IntegerV(7)>>, FALSE),
    GuiSqlCommand("insert into t values (?, ?)", <<StringV("x"), LongV(9)>>, TRUE),
    GuiSqlCommand("update t set a = ?, b = ?", <<StringV("x"), BytesV>>, TRUE),
    GuiSqlCommand("delete from t", <<>>, FALSE) }

\* GuiSqlCommand.render's effect on the map it is handed.
RenderedMap(cmd, m) ==
  IF cmd.mutates
  THEN [k \in DOMAIN m \cup {"gui"} |-> IF k = "gui" THEN StringV("set") ELSE m[k]]
  ELSE m

\* GuiSqlCommandRenderResult.
render(cmd, m) == [sql |-> cmd.sql, bindParams |-> cmd.bindParams]

\* ------------------------------------------------------ template resolver
SqlExecutionInput(preparedStatement, sql, params) ==
  [preparedStatement |-> preparedStatement, sql |-> sql, params |-> params]

NoInput == SqlExecutionInput(FALSE, "", <<>>)

\* What resolving the plan comes to: the plan, the collaborator calls made,
\* and the map handed over as the collaborators leave it.
Resolved(input, calls, requestParams) ==
  [input |-> input, calls |-> calls, requestParams |-> requestParams]

guiMode(context) == context.guiSqlCommand # NullV

\* isPreparedStatement without the structured command's override.
isPreparedStatement_FlagOnly(context) == ~context.disablePreparedStatement

isPreparedStatement(context) ==
  guiMode(context) \/ ~context.disablePreparedStatement

\* getPreparedStatementSqlInput binding each distinct key once.
RECURSIVE Distinct(_)
Distinct(keys) ==
  IF keys = <<>> THEN <<>>
  ELSE LET front == Distinct(SubSeq(keys, 1, Len(keys) - 1))
           last == keys[Len(keys)]
       IN IF \E i \in DOMAIN front : front[i] = last THEN front ELSE Append(front, last)

getPreparedStatementSqlInput_DistinctKeys(guiSqlCommand, query, requestParams) ==
  IF guiSqlCommand # NullV
  THEN Resolved(SqlExecutionInput(TRUE, render(guiSqlCommand, requestParams).sql,
                                  render(guiSqlCommand, requestParams).bindParams),
                <<"render">>,
                RenderedMap(guiSqlCommand, requestParams))
  ELSE LET keys == Distinct(extractMustacheKeysInOrder(query))
       IN Resolved(SqlExecutionInput(TRUE, doPrepareStatement(query, keys, requestParams),
                                     [i \in 1..Len(keys) |-> MapGet(requestParams, keys[i])]),
                   <<"extractMustacheKeysInOrder", "doPrepareStatement">>,
                   requestParams)

getPreparedStatementSqlInput(guiSqlCommand, query, requestParams) ==
  IF guiSqlCommand # NullV
  THEN LET renderResult == render(guiSqlCommand, requestParams)
       IN Resolved(SqlExecutionInput(TRUE, renderResult.sql, renderResult.bindParams),
                   <<"render">>,
                   RenderedMap(guiSqlCommand, requestParams))
  ELSE LET mustacheKeysInOrder == extractMustacheKeysInOrder(query)
           preparedSql == doPrepareStatement(query, mustacheKeysInOrder, requestParams)
           bindParams == [i \in 1..Len(mustacheKeysInOrder) |->
                            MapGet(requestParams, mustacheKeysInOrder[i])]
       IN Resolved(SqlExecutionInput(TRUE, preparedSql, bindParams),
                   <<"extractMustacheKeysInOrder", "doPrepareStatement">>,
                   requestParams)

getSqlExecutionInput(guiSqlCommand, query, prepared, requestParams) ==
  IF prepared
  THEN getPreparedStatementSqlInput(guiSqlCommand, query, requestParams)
  ELSE Resolved(SqlExecutionInput(FALSE, renderMustacheString(query, requestParams), <<>>),
                <<"renderMustacheString">>,
                requestParams)

\* The caller's map itself handed to the resolver, without a copy.
CopyOfRequestParams_Shared(context) == [shared |-> TRUE, map |-> context.requestParams]

\* new HashMap<>(context.getRequestParams()): a map of the call's own.
\* shared says whether a write to it is a write to the caller's map.
CopyOfRequestParams(context) == [shared |-> FALSE, map |-> context.requestParams]

\* ------------------------------------------------------ parameter binder
BIND_ERROR == "PREPARED_STATEMENT_BIND_PARAMETERS_ERROR"
EXEC_ERROR == "QUERY_EXECUTION_ERROR"

\* A call on the connection or the statement, and whether the driver threw
\* an SQLException from it.
Call(op, index, arg) == [op |-> op, index |-> index, arg |-> arg, threw |-> FALSE]
Threw(call) == [call EXCEPT !.threw = TRUE]

\* bindParam: the exception it throws before any driver call (or none), and
\* the setter call it makes otherwise.
Bound(exception, call) == [exception |-> exception, call |-> call]

bindParam(bindIndex, value, bindKeyName) ==
  IF value = NullV
  THEN Bound(NoException, Call("setNull", bindIndex, "Types.NULL"))
  ELSE IF InstanceOfClass(value, "java.lang.Integer")
  THEN Bound(NoException, Call("setInt", bindIndex, value.v))
  ELSE IF InstanceOfClass(value, "java.lang.Long")
  THEN Bound(NoException, Call("setLong", bindIndex, value.v))
  ELSE IF InstanceOfClass(value, "java.lang.Float")
            \/ InstanceOfClass(value, "java.lang.Double")
  THEN LET decimal == NewBigDecimal(StringValueOf(value.v))
       IN IF decimal.ok
          THEN Bound(NoException,
                     Call("setBigDecimal", bindIndex,
                          [unscaled |-> decimal.unscaled, scale |-> decimal.scale]))
          ELSE Bound(NumberFormatException, Call("none", bindIndex, ""))
  ELSE IF InstanceOfClass(value, "java.lang.Boolean")
  THEN Bound(NoException, Call("setBoolean", bindIndex, value.v))
  ELSE IF InstanceOfMap(value) \/ InstanceOfCollection(value)
  THEN Bound(NoException, Call("setString", bindIndex, toJson(value)))
  ELSE IF InstanceOfClass(value, "java.lang.String")
  THEN Bound(NoException, Call("setString", bindIndex, value.v))
  ELSE Bound(PluginException(BIND_ERROR, "PS_BIND_ERROR",
                             <<bindKeyName, getSimpleName(value.class)>>),
             Call("none", bindIndex, ""))

\* The call of bindParam with the list index as the driver position.
BindCall_ZeroBased(index, bindParams) == bindParam(index, bindParams[index + 1], "")

\* bindPreparedStatementParams, the call of bindParam for list index `index`
\* (from 0).
BindCall(index, bindParams) == bindParam(index + 1, bindParams[index + 1], "")

\* bindPreparedStatementParams without its catch clause.
BindCatch_Missing(e) == e

\* bindPreparedStatementParams, its catch clause.
BindCatch(e) == wrapException(BIND_ERROR, "PREPARED_STATEMENT_BIND_PARAMETERS_ERROR", e)

\* getStatementAndExecute, its catch clause.
StatementCatch(e) == wrapException(EXEC_ERROR, "QUERY_EXECUTION_ERROR", e)

\* A catch clause that lets the driver's exception through as it is.
ExecuteCatch_Rethrown(e) == e

\* execute, its catch clause.
ExecuteCatch(e) == wrapException(EXEC_ERROR, "QUERY_EXECUTION_ERROR", e)

\* ------------------------------------------------------- result harvester
\* Cells of a row, and the rows a result set parses to (column -> cell).
SentinelNull == [GENERATED_KEYS |-> NullV]
SentinelKey == [GENERATED_KEYS |-> LongV(5)]
UserRow == [id |-> IntegerV(1)]
UserRowWithKey == [GENERATED_KEYS |-> NullV, id |-> IntegerV(1)]
LowerCaseRow == [generated_keys |-> NullV]
NameRow == [name |-> StringV("y")]

RowLists ==
  { <<>>, <<SentinelNull>>, <<SentinelKey>>, <<UserRow>>, <<UserRowWithKey>>,
    <<LowerCaseRow>>, <<UserRow, SentinelNull>> }

\* The column labels of a result set whose columns are all different: the
\* keys of its rows, in the order of the metadata.
LabelOrder == <<"GENERATED_KEYS", "generated_keys", "id", "name">>
InRow(row, label) == label \in DOMAIN row
ColumnLabels(rows) ==
  IF rows = <<>> THEN <<"id">>
  ELSE LET Present(label) == InRow(rows[1], label)
       IN SelectSeq(LabelOrder, Present)

\* One outcome the driver reports: a result set (by the rows it parses to
\* and the column labels of its metadata) or an update count.
ResultSetOutcome(rows) ==
  [isResultSet |-> TRUE, rows |-> rows, updateCount |-> -1,
   columns |-> ColumnLabels(rows)]
UpdateCountOutcome(n) ==
  [isResultSet |-> FALSE, rows |-> <<>>, updateCount |-> n, columns |-> <<>>]
\* A result set with two columns of the same label: its rows, parsed to maps,
\* keep one cell for both.
DuplicateColumns ==
  [isResultSet |-> TRUE, rows |-> <<NameRow>>, updateCount |-> -1,
   columns |-> <<"name", "name">>]
Outcomes ==
  {ResultSetOutcome(r) : r \in RowLists} \cup {DuplicateColumns}
    \cup {UpdateCountOutcome(n) : n \in {0, 3}}

\* What statement.getGeneratedKeys can return: null, or a result set of keys.
NullResultSet == [isNull |-> TRUE, keys |-> <<>>]
KeyResultSet(keys) == [isNull |-> FALSE, keys |-> keys]
GeneratedKeySets == { NullResultSet, KeyResultSet(<<>>), KeyResultSet(<<41, 42>>) }

\* The values collected in `result`: a list of rows, or a write summary.
RowsValue(dataRows) == [json |-> "rows", rows |-> dataRows]

\* A test that looks only for the key in the first row.
containsNullGeneratedKeys_AnyRow(dataRows) ==
  Len(dataRows) >= 1 /\ "GENERATED_KEYS" \in DOMAIN dataRows[1]

containsNullGeneratedKeys(dataRows) ==
  IF Len(dataRows) # 1 THEN FALSE
  ELSE LET map == dataRows[1]
       IN IF Cardinality(DOMAIN map) = 1
          THEN "GENERATED_KEYS" \in DOMAIN map
          ELSE FALSE

\* getGeneratedIds: the first column of every row, or empty for null.
getGeneratedIds(generatedKeys) ==
  IF generatedKeys.isNull THEN <<>> ELSE generatedKeys.keys

\* A summary that carries the generated keys even when there are none.
AffectRowsAndGeneratedKeys_AlwaysKeys(count, generatedIds) ==
  [json |-> "object", affectedRows |-> count, generatedKeys |-> generatedIds]

\* getAffectRowsAndGeneratedKeys, the map it returns.
AffectRowsAndGeneratedKeys(count, generatedIds) ==
  IF generatedIds # <<>>
  THEN [json |-> "object", affectedRows |-> count, generatedKeys |-> generatedIds]
  ELSE [json |-> "object", affectedRows |-> count]

\* A loop that goes on only while result sets follow.
LoopContinues_ResultSetsOnly(resultSetNext, count) == resultSetNext

\* A loop that goes on only while update counts follow.
LoopContinues_UpdateCountsOnly(resultSetNext, count) == count # -1

\* parseExecuteResult, the loop's condition.
LoopContinues(resultSetNext, count) == resultSetNext \/ count # -1

\* QueryExecutionResult.success, with the data alone and with hint messages.
success(data) == [success |-> TRUE, data |-> data, hintMessages |-> <<>>]
successWithHints(data, hintMessages) ==
  [success |-> TRUE, data |-> data, hintMessages |-> hintMessages]

\* The collected list returned as it is, whatever its length.
ShapeResult_AlwaysList(collected) ==
  success([json |-> "array", items |-> collected])

\* parseExecuteResult, the value returned for the collected list.
ShapeResult(collected) ==
  IF Len(collected) = 1
  THEN success(collected[1])
  ELSE success([json |-> "array", items |-> collected])

NoResult == [success |-> FALSE]

\* String.join with a delimiter.
RECURSIVE StringJoin(_, _)
StringJoin(delimiter, elements) ==
  IF elements = <<>> THEN ""
  ELSE IF Len(elements) = 1 THEN elements[1]
  ELSE elements[1] \o delimiter \o StringJoin(delimiter, Tail(elements))

\* getIdenticalColumns: the labels that occur more than once, every
\* occurrence of them, in the order of the columns.
getIdenticalColumns(columnNames) ==
  LET Occurrences(label) ==
        Cardinality({i \in 1..Len(columnNames) : columnNames[i] = label})
      Repeated(label) == Occurrences(label) > 1
  IN SelectSeq(columnNames, Repeated)

LocaleMessage(key, detail) == [key |-> key, detail |-> detail]

populateHintMessages(columnNames) ==
  LET identicalColumns == getIdenticalColumns(columnNames)
  IN IF identicalColumns # <<>>
     THEN <<LocaleMessage("DUPLICATE_COLUMN", StringJoin("/", identicalColumns))>>
     ELSE <<>>

\* parseResultSet: the rows of a result set with the hints for its column
\* labels. No method of the executor calls it.
parseResultSet(outcome) ==
  successWithHints(RowsValue(outcome.rows), populateHintMessages(outcome.columns))

\* ------------------------------------------------------------ the driver
\* The outcome the statement is positioned on, for a cursor into the
\* outcomes the execution produces (past the end: no more results).
OnResultSet(script, cur) == cur <= Len(script) /\ script[cur].isResultSet
UpdateCountAt(script, cur) ==
  IF cur <= Len(script) /\ ~script[cur].isResultSet THEN script[cur].updateCount ELSE -1
RowsAt(script, cur) == IF OnResultSet(script, cur) THEN script[cur].rows ELSE <<>>
MoreResults(script, cur) == IF cur <= Len(script) THEN cur + 1 ELSE cur

\* ----------------------------------------------------------------- inputs
\* The caller's request parameters a and b: every value for a with a string
\* for b, and every other value for b with an integer for a.
ParamMap(va, vb) == [k \in {"a", "b"} |-> IF k = "a" THEN va ELSE vb]
RequestParamMaps ==
  { ParamMap(va, StringV("y")) : va \in Values }
    \cup { ParamMap(IntegerV(7), vb) : vb \in OtherValues }

Context(guiSqlCommand, query, disablePreparedStatement, requestParams) ==
  [guiSqlCommand |-> guiSqlCommand, query |-> query,
   disablePreparedStatement |-> disablePreparedStatement,
   requestParams |-> requestParams]

SomeParams == [k \in {"a", "b"} |-> IF k = "a" THEN IntegerV(7) ELSE StringV("y")]

RawContexts ==
  { Context(NullV, q, d, m) : q \in Templates, d \in BOOLEAN, m \in RequestParamMaps }
GuiContexts ==
  { Context(g, <<Key("a")>>, d, SomeParams) : g \in GuiSqlCommands, d \in BOOLEAN }
Contexts == RawContexts \cup GuiContexts

FewContexts ==
  { Context(NullV, <<Lit("select 1 "), Key("a")>>, FALSE, SomeParams),
    Context(NullV, <<Lit("select 1 "), Key("a")>>, TRUE, SomeParams) }

Scripts == SeqsUpTo(Outcomes, MaxOutcomes)
FewScripts ==
  { <<ResultSetOutcome(<<UserRow>>)>>, <<UpdateCountOutcome(3)>> }

\* ------------------------------------------------------------------ state
VARIABLES
  context,            \* the caller's SqlBasedQueryExecutionContext
  outcomes,           \* the outcomes the execution produces at the driver
  pc,                 \* where the call is
  requestParams,      \* execute's local map
  sqlExecutionInput,  \* the plan
  collab,             \* the collaborator calls made while resolving
  log,                \* the calls made on the connection and the statement
  index,              \* bindPreparedStatementParams' loop index
  statement,          \* "none", "open", "closed"
  connection,         \* "open", "closed"
  cursor,             \* the driver's position in outcomes
  isResultSet,        \* parseExecuteResult's flag
  updateCount,        \* parseExecuteResult's count
  result,             \* parseExecuteResult's list
  generatedKeys,      \* the generated-key result set of the current summary
  returned,           \* the QueryExecutionResult returned
  thrown,             \* the exception the call ends with
  \* InfiniteScroll
  phase,              \* "new", "mounted", "unmounted"
  endOfList,          \* the endOfList prop of the latest render
  effectEndOfList,    \* the endOfList the effect's closure holds
  observers,          \* the IntersectionObservers created
  observing,          \* the observer observes the target
  notifications,      \* the entries of the observer's notifications
  invoked             \* the callbacks the observer's callback invoked

executorVars ==
  <<context, outcomes, pc, requestParams, sqlExecutionInput, collab, log, index,
    statement, connection, cursor, isResultSet, updateCount, result,
    generatedKeys, returned, thrown>>
scrollVars ==
  <<phase, endOfList, effectEndOfList, observers, observing, notifications, invoked>>
vars == <<executorVars, scrollVars>>

resolverVars == <<requestParams, sqlExecutionInput, collab>>
drainVars == <<cursor, isResultSet, updateCount, result, generatedKeys>>
resources == <<statement, connection>>

NoKeys == [state |-> "none", rs |-> NullResultSet]

\* The parent's callbacks, and no callback.
Callbacks == {"loadPage", "loadPageAgain"}
NoCallback == "none"

\* The component before its first render, given its endOfList prop.
NotMounted(callback) ==
  /\ phase = "new"
  /\ endOfList = callback
  /\ effectEndOfList = NoCallback
  /\ observers = 0
  /\ observing = FALSE
  /\ notifications = << >>
  /\ invoked = << >>

\* The state at the call of execute on a context, with the driver's outcomes.
ExecuteCalled(calledWith, script) ==
  /\ context = calledWith
  /\ outcomes = script
  /\ pc = "start"
  /\ requestParams = << >>
  /\ sqlExecutionInput = NoInput
  /\ collab = << >>
  /\ log = << >>
  /\ index = 0
  /\ statement = "none"
  /\ connection = "open"
  /\ cursor = 0
  /\ isResultSet = FALSE
  /\ updateCount = 0
  /\ result = << >>
  /\ generatedKeys = NoKeys
  /\ returned = NoResult
  /\ thrown = NoException

Init ==
  /\ \E input \in (Contexts \X FewScripts) \cup (FewContexts \X Scripts) :
       ExecuteCalled(input[1], input[2])
  /\ NotMounted("loadPage")

\* ---------------------------------------------------------------- actions
\* execute, lines 49-55: the plan is resolved over a copy of the request
\* parameters.
ResolvePlan ==
  /\ UNCHANGED scrollVars
  /\ pc = "start"
  /\ LET prepared == isPreparedStatement(context)
         copy == CopyOfRequestParams(context)
         r == getSqlExecutionInput(context.guiSqlCommand, context.query, prepared, copy.map)
     IN /\ requestParams' = r.requestParams
        /\ context' = IF copy.shared
                      THEN [context EXCEPT !.requestParams = r.requestParams]
                      ELSE context
        /\ collab' = collab \o r.calls
        /\ sqlExecutionInput' = r.input
  /\ pc' = "statement"
  /\ UNCHANGED <<outcomes, log, index, resources, drainVars, returned, thrown>>

\* getStatementAndExecute: where the call goes when the statement exists.
AfterStatement(input) ==
  IF input.preparedStatement /\ Len(input.params) > 0 THEN "bind" ELSE "execute"

\* getStatementAndExecute, lines 133 and 140: connection.prepareStatement or
\* connection.createStatement.
OpenStatementCall_AlwaysPrepared(input) ==
  Call("prepareStatement", 0, <<input.sql, "RETURN_GENERATED_KEYS">>)

OpenStatementCall(input) ==
  IF input.preparedStatement
  THEN Call("prepareStatement", 0, <<input.sql, "RETURN_GENERATED_KEYS">>)
  ELSE Call("createStatement", 0, << >>)

OpenStatement ==
  /\ UNCHANGED scrollVars
  /\ pc = "statement"
  /\ \/ /\ log' = Append(log, OpenStatementCall(sqlExecutionInput))
        /\ statement' = "open"
        /\ pc' = AfterStatement(sqlExecutionInput)
        /\ UNCHANGED thrown
     \/ /\ log' = Append(log, Threw(OpenStatementCall(sqlExecutionInput)))
        /\ thrown' = StatementCatch(SQLException)
        /\ pc' = "thrown"
        /\ UNCHANGED statement
  /\ UNCHANGED <<context, outcomes, resolverVars, index, connection, drainVars, returned>>

\* A catch clause that swallows the failure: the loop is left and the
\* statement is executed.
BindFailure_Swallowed(e) == [pc |-> "execute", thrown |-> NoException]

\* A failed bind after which the call starts again with a new statement.
BindFailure_Retried(e) == [pc |-> "statement", thrown |-> NoException]

\* bindPreparedStatementParams: where a failed bind leaves the call, and with
\* which exception (its own catch, then getStatementAndExecute's).
BindFailure(e) == [pc |-> "thrown", thrown |-> StatementCatch(BindCatch(e))]

\* A bind loop that is left after its first turn.
AfterBind_FirstOnly(i, bindParams) == "execute"

\* bindPreparedStatementParams: where the loop goes after binding `i` (from 0).
AfterBind(i, bindParams) == IF i + 1 < Len(bindParams) THEN "bind" ELSE "execute"

\* bindPreparedStatementParams, one turn of the loop.
BindNext ==
  /\ UNCHANGED scrollVars
  /\ pc = "bind"
  /\ index < Len(sqlExecutionInput.params)
  /\ LET b == BindCall(index, sqlExecutionInput.params)
     IN IF b.exception # NoException
        THEN /\ pc' = BindFailure(b.exception).pc
             /\ thrown' = BindFailure(b.exception).thrown
             /\ UNCHANGED <<log, index>>
        ELSE \/ /\ log' = Append(log, b.call)
                /\ index' = index + 1
                /\ pc' = AfterBind(index, sqlExecutionInput.params)
                /\ UNCHANGED thrown
             \/ /\ log' = Append(log, Threw(b.call))
                /\ pc' = BindFailure(SQLException).pc
                /\ thrown' = BindFailure(SQLException).thrown
                /\ UNCHANGED index
  /\ UNCHANGED <<context, outcomes, resolverVars, resources, drainVars, returned>>

\* getStatementAndExecute, lines 136 and 141: statement.execute.
ExecuteCall(input) ==
  IF input.preparedStatement
  THEN Call("execute", 0, << >>)
  ELSE Call("execute", 0, <<input.sql, "RETURN_GENERATED_KEYS">>)

StatementExecute ==
  /\ UNCHANGED scrollVars
  /\ pc = "execute"
  /\ \/ /\ log' = Append(log, ExecuteCall(sqlExecutionInput))
        /\ cursor' = 1
        /\ isResultSet' = OnResultSet(outcomes, 1)
        /\ pc' = "drain"
        /\ UNCHANGED thrown
     \/ /\ log' = Append(log, Threw(ExecuteCall(sqlExecutionInput)))
        /\ thrown' = StatementCatch(SQLException)
        /\ pc' = "thrown"
        /\ UNCHANGED <<cursor, isResultSet>>
  /\ UNCHANGED <<context, outcomes, resolverVars, index, resources, updateCount,
                 result, generatedKeys, returned>>

\* execute, line 61: leaving the try block closes the statement, then the
\* connection.
CloseResources == << Call("statement.close", 0, << >>), Call("connection.close", 0, << >>) >>

\* A close call the driver accepts or rejects, and the resource after it.
CloseCall(op, fails) ==
  IF fails THEN Threw(Call(op, 0, << >>)) ELSE Call(op, 0, << >>)
AfterClose(fails) == IF fails THEN "open" ELSE "closed"

\* Both close calls are made, whether or not the first one throws.
CloseResourcesWith(statementFails, connectionFails) ==
  << CloseCall("statement.close", statementFails),
     CloseCall("connection.close", connectionFails) >>

\* The call leaves parseExecuteResult with an exception after the logged
\* calls: the resources are closed (a close that throws as well is
\* suppressed) and execute's catch clause wraps the SQLException.
DrainFailureAfter(entries) ==
  /\ \E statementFails, connectionFails \in BOOLEAN :
       /\ log' = log \o entries \o CloseResourcesWith(statementFails, connectionFails)
       /\ statement' = AfterClose(statementFails)
       /\ connection' = AfterClose(connectionFails)
  /\ thrown' = ExecuteCatch(SQLException)
  /\ pc' = "thrown"

\* A driver call inside parseExecuteResult throws: the resources are closed
\* and execute's catch clause wraps the SQLException.
DrainFailure(calls) == DrainFailureAfter(<<Threw(Head(calls))>> \o Tail(calls))

\* A loop that tests its condition before the first turn.
FirstTurn_TestFirst(resultSetFirst, count) ==
  IF resultSetFirst \/ count # -1 THEN "body" ELSE "shape"

\* parseExecuteResult, line 73: do { ... } while: the first turn of the loop
\* is entered without a test.
FirstTurn(resultSetFirst, count) == "body"

\* parseExecuteResult, line 72: the first statement.getUpdateCount.
DrainFirstUpdateCount ==
  /\ UNCHANGED scrollVars
  /\ pc = "drain"
  /\ \/ /\ log' = Append(log, Call("getUpdateCount", 0, << >>))
        /\ updateCount' = UpdateCountAt(outcomes, cursor)
        /\ pc' = FirstTurn(isResultSet, UpdateCountAt(outcomes, cursor))
        /\ UNCHANGED <<resources, thrown>>
     \/ /\ DrainFailure(<< Call("getUpdateCount", 0, << >>) >>)
        /\ UNCHANGED updateCount
  /\ UNCHANGED <<context, outcomes, resolverVars, index, cursor, isResultSet, result,
                 generatedKeys, returned>>

\* parseExecuteResult, lines 75-79: what the list is after a result set of
\* dataRows.
AddRows(collected, dataRows) ==
  IF ~containsNullGeneratedKeys(dataRows)
  THEN Append(collected, RowsValue(dataRows))
  ELSE collected

\* parseExecuteResult, lines 74-79: the current outcome is a result set.
DrainResultSet ==
  /\ UNCHANGED scrollVars
  /\ pc = "body"
  /\ isResultSet
  /\ \/ /\ log' = Append(log, Call("getResultSet", cursor, << >>))
        /\ result' = AddRows(result, RowsAt(outcomes, cursor))
        /\ pc' = "more"
        /\ UNCHANGED <<resources, thrown>>
     \/ /\ DrainFailure(<< Call("getResultSet", cursor, << >>) >>)
        /\ UNCHANGED result
  /\ UNCHANGED <<context, outcomes, resolverVars, index, cursor, isResultSet,
                 updateCount, generatedKeys, returned>>

\* getAffectRowsAndGeneratedKeys, line 98: statement.getGeneratedKeys opens
\* the try block's resource; the driver returns null or a result set.
DrainGetGeneratedKeys ==
  /\ UNCHANGED scrollVars
  /\ pc = "body"
  /\ ~isResultSet
  /\ \/ /\ log' = Append(log, Call("getGeneratedKeys", 0, << >>))
        /\ \E rs \in GeneratedKeySets :
             generatedKeys' = [state |-> IF rs.isNull THEN "null" ELSE "open", rs |-> rs]
        /\ pc' = "ids"
        /\ UNCHANGED <<resources, thrown>>
     \/ /\ DrainFailure(<< Call("getGeneratedKeys", 0, << >>) >>)
        /\ UNCHANGED generatedKeys
  /\ UNCHANGED <<context, outcomes, resolverVars, index, cursor, isResultSet,
                 updateCount, result, returned>>

\* getAffectRowsAndGeneratedKeys, lines 98-103: leaving the try block closes
\* the generated-key result set, unless it is null.
CloseKeys(keys) ==
  IF keys.state = "open" THEN << Call("generatedKeys.close", 0, << >>) >> ELSE << >>
ClosedKeys(keys) ==
  IF keys.state = "open" THEN [keys EXCEPT !.state = "closed"] ELSE keys

\* getAffectRowsAndGeneratedKeys, lines 99-104: the generated ids are read
\* and the summary is added to the list.
DrainGeneratedIds ==
  /\ UNCHANGED scrollVars
  /\ pc = "ids"
  /\ \/ /\ log' = log \o << Call("getGeneratedIds", 0, << >>) >> \o CloseKeys(generatedKeys)
        /\ generatedKeys' = ClosedKeys(generatedKeys)
        /\ result' = Append(result,
                            AffectRowsAndGeneratedKeys(updateCount,
                                                       getGeneratedIds(generatedKeys.rs)))
        /\ pc' = "more"
        /\ UNCHANGED <<resources, thrown>>
     \/ /\ ~generatedKeys.rs.isNull
        /\ DrainFailure(<< Call("getGeneratedIds", 0, << >>) >> \o CloseKeys(generatedKeys))
        /\ generatedKeys' = ClosedKeys(generatedKeys)
        /\ UNCHANGED result
     \/ /\ generatedKeys.state = "open"
        /\ \E readFails \in BOOLEAN :
             DrainFailureAfter(<< IF readFails THEN Threw(Call("getGeneratedIds", 0, << >>))
                                  ELSE Call("getGeneratedIds", 0, << >>),
                                  CloseCall("generatedKeys.close", TRUE) >>)
        /\ UNCHANGED <<generatedKeys, result>>
  /\ UNCHANGED <<context, outcomes, resolverVars, index, cursor, isResultSet,
                 updateCount, returned>>

\* parseExecuteResult, line 84: statement.getMoreResults.
DrainGetMoreResults ==
  /\ UNCHANGED scrollVars
  /\ pc = "more"
  /\ \/ /\ log' = Append(log, Call("getMoreResults", 0, << >>))
        /\ cursor' = MoreResults(outcomes, cursor)
        /\ isResultSet' = OnResultSet(outcomes, MoreResults(outcomes, cursor))
        /\ pc' = "count"
        /\ UNCHANGED <<resources, thrown>>
     \/ /\ DrainFailure(<< Call("getMoreResults", 0, << >>) >>)
        /\ UNCHANGED <<cursor, isResultSet>>
  /\ UNCHANGED <<context, outcomes, resolverVars, index, updateCount, result,
                 generatedKeys, returned>>

\* parseExecuteResult, lines 85-86: statement.getUpdateCount and the loop's
\* test.
DrainGetUpdateCount ==
  /\ UNCHANGED scrollVars
  /\ pc = "count"
  /\ \/ /\ log' = Append(log, Call("getUpdateCount", 0, << >>))
        /\ updateCount' = UpdateCountAt(outcomes, cursor)
        /\ pc' = IF LoopContinues(isResultSet, UpdateCountAt(outcomes, cursor))
                 THEN "body" ELSE "shape"
        /\ UNCHANGED <<resources, thrown>>
     \/ /\ DrainFailure(<< Call("getUpdateCount", 0, << >>) >>)
        /\ UNCHANGED updateCount
  /\ UNCHANGED <<context, outcomes, resolverVars, index, cursor, isResultSet, result,
                 generatedKeys, returned>>

\* parseExecuteResult, lines 88-92, and execute, line 61: the result is
\* shaped and returned, and the resources are closed.
ReturnResult ==
  /\ UNCHANGED scrollVars
  /\ pc = "shape"
  /\ \/ /\ returned' = ShapeResult(result)
        /\ log' = log \o CloseResources
        /\ statement' = "closed"
        /\ connection' = "closed"
        /\ pc' = "returned"
        /\ UNCHANGED thrown
     \/ /\ \E statementFails, connectionFails \in BOOLEAN :
             /\ statementFails \/ connectionFails
             /\ log' = log \o CloseResourcesWith(statementFails, connectionFails)
             /\ statement' = AfterClose(statementFails)
             /\ connection' = AfterClose(connectionFails)
        /\ thrown' = ExecuteCatch(SQLException)
        /\ pc' = "thrown"
        /\ UNCHANGED returned
  /\ UNCHANGED <<context, outcomes, resolverVars, index, drainVars>>

Next ==
  \/ ResolvePlan
  \/ OpenStatement
  \/ BindNext
  \/ StatementExecute
  \/ DrainFirstUpdateCount
  \/ DrainResultSet
  \/ DrainGetGeneratedKeys
  \/ DrainGeneratedIds
  \/ DrainGetMoreResults
  \/ DrainGetUpdateCount
  \/ ReturnResult

Spec == Init /\ [][Next]_vars

\* -------------------------------------------------------- InfiniteScroll
\* An IntersectionObserverEntry, and the entry lists of a notification.
Entry(isIntersecting) == [isIntersecting |-> isIntersecting]
EntryLists ==
  { << >>, <<Entry(FALSE)>>, <<Entry(TRUE)>>, <<Entry(FALSE), Entry(TRUE)>>,
    <<Entry(TRUE), Entry(FALSE)>> }

\* useEffect with no dependencies: the closure of the observer's callback
\* holds the endOfList of the render whose effect ran.
ClosureEndOfList(atEffect, latest) == atEffect

\* The observer's callback: entries[0]?.isIntersecting, then endOfList().
ObserverCallback(entries, callback, calls) ==
  IF Len(entries) >= 1 /\ entries[1].isIntersecting
  THEN Append(calls, callback)
  ELSE calls

\* The first render is committed and the effect runs: the observer is
\* created and observes the target, whose ref the commit has set.
Mount ==
  /\ phase = "new"
  /\ phase' = "mounted"
  /\ effectEndOfList' = endOfList
  /\ observers' = observers + 1
  /\ observing' = TRUE
  /\ UNCHANGED <<endOfList, notifications, invoked>>
  /\ UNCHANGED executorVars

\* The parent renders the component again with another endOfList; the effect
\* does not run again.
Rerender ==
  /\ phase = "mounted"
  /\ \E callback \in Callbacks \ {endOfList} : endOfList' = callback
  /\ UNCHANGED <<phase, effectEndOfList, observers, observing, notifications, invoked>>
  /\ UNCHANGED executorVars

\* The browser runs the observer's callback with the entries it has queued.
\* disconnect() ends the observation but takes back no notification already
\* queued, and the callback tests nothing but the first entry: a notification
\* can run once the observer exists, before or after the cleanup.
Notify ==
  /\ observers > 0
  /\ Len(notifications) < MaxNotifications
  /\ \E entries \in EntryLists :
       /\ notifications' = Append(notifications, entries)
       /\ invoked' = ObserverCallback(entries,
                                      ClosureEndOfList(effectEndOfList, endOfList),
                                      invoked)
  /\ UNCHANGED <<phase, endOfList, effectEndOfList, observers, observing>>
  /\ UNCHANGED executorVars

\* The component is unmounted: the effect's cleanup disconnects the observer.
Unmount ==
  /\ phase = "mounted"
  /\ phase' = "unmounted"
  /\ observing' = FALSE
  /\ UNCHANGED <<endOfList, effectEndOfList, observers, notifications, invoked>>
  /\ UNCHANGED executorVars

ScrollInit ==
  /\ ExecuteCalled(Context(NullV, << >>, FALSE, SomeParams), << >>)
  /\ \E callback \in Callbacks : NotMounted(callback)

ScrollNext ==
  \/ Mount
  \/ Rerender
  \/ Notify
  \/ Unmount

ScrollSpec == ScrollInit /\ [][ScrollNext]_vars

\* ------------------------------------------------------------ the claims
Ended == pc \in {"returned", "thrown"}
PlanResolved == pc # "start"
RawPrepared == ~guiMode(context) /\ ~context.disablePreparedStatement

CountOf(calls, name) == Cardinality({i \in DOMAIN calls : calls[i] = name})
Logged(op) == \E i \in DOMAIN log : log[i].op = op

Setters == {"setNull", "setInt", "setLong", "setBigDecimal", "setBoolean", "setString"}
IsSetter(call) == call.op \in Setters
Binds == SelectSeq(log, IsSetter)

\* The supported set of the binder's table: null, these six classes, and
\* every class that implements Map or Collection.
SupportedClasses ==
  {"java.lang.Integer", "java.lang.Long", "java.lang.Float", "java.lang.Double",
   "java.lang.Boolean", "java.lang.String"}
IsFloating(value) ==
  value # NullV /\ value.class.name \in {"java.lang.Float", "java.lang.Double"}
Supported(value) ==
  \/ value = NullV
  \/ value.class.name \in SupportedClasses
  \/ "Map" \in value.implements
  \/ "Collection" \in value.implements
\* A float or double that is a number with a decimal expansion.
HasDecimal(value) == IsFloating(value) => ~value.v.nan /\ ~value.v.infinite

\* A bind failed: the call ended in the bind loop, before the loop's end.
BindFailed ==
  /\ pc = "thrown"
  /\ sqlExecutionInput.preparedStatement
  /\ statement = "open"
  /\ ~Logged("execute")
  /\ index < Len(sqlExecutionInput.params)

\* C1: on every exit path of execute the connection is closed and every
\* statement that was created is closed: close was called on each of them.
C1_ResourcesReleasedOnEveryExit ==
  Ended =>
    /\ Logged("connection.close")
    /\ statement # "none" => Logged("statement.close")

\* C2: with a structured command the plan uses prepared binding whatever the
\* caller's flag says, render is called exactly once, and the plan's sql and
\* bind values are what render returned; the text-substitution path is taken
\* only without a structured command and with prepared binding disabled.
C2_GuiForcesPrepared ==
  pc # "start" =>
    /\ guiMode(context) =>
         /\ CountOf(collab, "render") = 1
         /\ PlanResolved =>
              /\ sqlExecutionInput.preparedStatement
              /\ sqlExecutionInput.sql
                   = render(context.guiSqlCommand, context.requestParams).sql
              /\ sqlExecutionInput.params
                   = render(context.guiSqlCommand, context.requestParams).bindParams
    /\ ~guiMode(context) => CountOf(collab, "render") = 0
    /\ CountOf(collab, "renderMustacheString") > 0
         <=> (~guiMode(context) /\ context.disablePreparedStatement)
    /\ PlanResolved =>
         (~sqlExecutionInput.preparedStatement
            <=> (~guiMode(context) /\ context.disablePreparedStatement))

C2_Witness ==
  /\ pc = "returned"
  /\ guiMode(context)
  /\ context.disablePreparedStatement
  /\ sqlExecutionInput.params = <<IntegerV(7)>>
  /\ CountOf(collab, "render") = 1

\* C3: for a raw template in prepared mode with placeholder names n_1..n_N
\* (repeats counted), the plan has exactly N bind values, the i-th being
\* RequestParameters.get(n_i), null when n_i is absent; a name at two
\* positions gives two identical values there.
C3_BindValuesFollowPlaceholders ==
  (RawPrepared /\ pc # "start") =>
    LET names == extractMustacheKeysInOrder(context.query)
        values == sqlExecutionInput.params
    IN /\ Len(values) = Len(names)
       /\ \A i \in 1..Len(names) :
            values[i] = IF names[i] \in DOMAIN context.requestParams
                        THEN context.requestParams[names[i]]
                        ELSE NullV
       /\ \A i, j \in 1..Len(names) : names[i] = names[j] => values[i] = values[j]

C3_Witness ==
  /\ pc = "returned"
  /\ RawPrepared
  /\ extractMustacheKeysInOrder(context.query) = <<"a", "a">>
  /\ sqlExecutionInput.params = <<MapV("a", 1), MapV("a", 1)>>

\* The setter the binder's table gives a value of a supported kind: the table
\* is keyed by the value's class, and for a map or a collection by the
\* interface.
SetterOfClass ==
  [c \in SupportedClasses |->
     CASE c = "java.lang.Integer" -> "setInt"
       [] c = "java.lang.Long" -> "setLong"
       [] c \in {"java.lang.Float", "java.lang.Double"} -> "setBigDecimal"
       [] c = "java.lang.Boolean" -> "setBoolean"
       [] c = "java.lang.String" -> "setString"]
TableSetter(value) ==
  IF value = NullV THEN "setNull"
  ELSE IF value.class.name \in SupportedClasses THEN SetterOfClass[value.class.name]
  ELSE IF Supported(value) THEN "setString"
  ELSE "none"

\* The argument the binder's table gives: the value itself, the decimal
\* tenths/10 for a float, the JSON text for a map or a collection.
TableArgument(value) ==
  CASE value = NullV -> "Types.NULL"
    [] IsFloating(value) -> [unscaled |-> value.v.tenths, scale |-> 1]
    [] "Map" \in value.implements /\ value.v = <<"a", 1>> -> "{\"a\":1}"
    [] "Map" \in value.implements /\ value.v = <<"b", 2>> -> "{\"b\":2}"
    [] "Collection" \in value.implements /\ value.v = <<1, 2>> -> "[1,2]"
    [] OTHER -> value.v

RECURSIVE PowerOfTen(_)
PowerOfTen(n) == IF n = 0 THEN 1 ELSE 10 * PowerOfTen(n - 1)

\* Two decimals are the same number, whatever their scales.
SameDecimal(a, b) ==
  LET scale == IF a.scale > b.scale THEN a.scale ELSE b.scale
  IN a.unscaled * PowerOfTen(scale - a.scale) = b.unscaled * PowerOfTen(scale - b.scale)

\* The argument of a bind call is the one the table gives for the value.
TableArgumentIs(arg, value) ==
  IF IsFloating(value)
  THEN SameDecimal(arg, TableArgument(value))
  ELSE arg = TableArgument(value)

\* The bind calls made so far are those of the table, in ascending order from
\* position 1, one for each value.
BoundByTable ==
  LET values == sqlExecutionInput.params
  IN /\ Len(Binds) <= Len(values)
     /\ \A p \in 1..Len(Binds) :
          /\ Binds[p].index = p
          /\ Supported(values[p])
          /\ Binds[p].op = TableSetter(values[p])
          /\ TableArgumentIs(Binds[p].arg, values[p])

\* A bind call the driver rejected.
SetterRejected == \E p \in DOMAIN Binds : Binds[p].threw

\* The bind loop was entered and the call is past it.
BindingOver ==
  /\ sqlExecutionInput.preparedStatement
  /\ statement # "none"
  /\ pc \notin {"start", "statement", "bind"}

\* C4, as the specification states it: when every bind value has a supported
\* kind, each of them is bound once, in order, at its position, unless the
\* driver rejects a bind call.
C4_EverySupportedValueBound ==
  (/\ BindingOver
   /\ \A p \in DOMAIN sqlExecutionInput.params : Supported(sqlExecutionInput.params[p])
   /\ ~SetterRejected) =>
    BoundByTable /\ Len(Binds) = Len(sqlExecutionInput.params)

\* C4: on the prepared path the value at list index i is bound exactly once,
\* at driver position i + 1, in ascending order, with the setter of its kind,
\* and no other position is bound; when every value has a supported kind and
\* every float or double has a decimal expansion, all N are bound unless the
\* driver rejects a bind call; a float or double that is NaN or infinite is
\* not bound, and the call ends there with a PreparedStatementBindError.
C4_EachValueBoundOnceByKind ==
  sqlExecutionInput.preparedStatement =>
    LET values == sqlExecutionInput.params
    IN /\ BoundByTable
       /\ \A p \in 1..Len(Binds) : HasDecimal(values[p])
       /\ (/\ BindingOver
           /\ \A p \in DOMAIN values : Supported(values[p]) /\ HasDecimal(values[p])
           /\ ~SetterRejected) => Len(Binds) = Len(values)
       /\ (BindingOver /\ \E p \in DOMAIN values : ~HasDecimal(values[p])) =>
            LET first == CHOOSE p \in DOMAIN values :
                           /\ ~HasDecimal(values[p])
                           /\ \A q \in 1..(p - 1) : HasDecimal(values[q])
            IN /\ Len(Binds) < first
               /\ pc = "thrown"
               /\ (Len(Binds) = first - 1 /\ ~SetterRejected) =>
                    thrown.error = BIND_ERROR

C4_Witness ==
  /\ pc = "returned"
  /\ sqlExecutionInput.preparedStatement
  /\ Len(sqlExecutionInput.params) = 2
  /\ sqlExecutionInput.params[1] = DoubleV(100000000)
  /\ sqlExecutionInput.params[2] = StringV("y")
  /\ Len(Binds) = 2

\* C5: a bind value of an unsupported kind, or a bind call the driver
\* rejects, ends execute with a PreparedStatementBindError, not with a
\* QueryExecutionError or a result; for an unsupported kind the error names
\* the value's runtime type.
C5_BindFailureIsBindError ==
  BindFailed =>
    /\ thrown.class = "PluginException"
    /\ thrown.error = BIND_ERROR
    /\ thrown.error # EXEC_ERROR
    /\ returned = NoResult
    /\ LET value == sqlExecutionInput.params[index + 1]
       IN ~Supported(value) =>
            \E a \in DOMAIN thrown.args : thrown.args[a] = value.kind

C5_Witness ==
  /\ BindFailed
  /\ index = 1
  /\ sqlExecutionInput.params[2] = Point2DDoubleV
  /\ thrown.error = BIND_ERROR
  /\ thrown.args = <<"", "Double">>

\* C6: the PreparedStatementBindError of a value that cannot be bound
\* carries the name or the position of the offending parameter.
C6_BindErrorIdentifiesSlot ==
  (BindFailed /\ ~Supported(sqlExecutionInput.params[index + 1])) =>
    LET names == IF guiMode(context) THEN <<>>
                 ELSE extractMustacheKeysInOrder(context.query)
        slot == {ToString(index + 1)}
                  \cup (IF index + 1 <= Len(names) THEN {names[index + 1]} ELSE {})
    IN \E a \in DOMAIN thrown.args : thrown.args[a] \in slot

DrainOps ==
  {"getUpdateCount", "getResultSet", "getGeneratedKeys", "getGeneratedIds",
   "getMoreResults"}

\* C7: when the bind of the value at index k fails, no value at a greater
\* index is bound, the statement is never executed, nothing is drained and
\* the call ends in an error; the failing slot is not skipped and binding does
\* not start again.
C7_BindFailureAborts ==
  /\ \A i \in DOMAIN log :
       (IsSetter(log[i]) /\ log[i].threw) =>
         /\ i = Len(log)
         /\ pc = "thrown"
         /\ thrown # NoException
  /\ (sqlExecutionInput.preparedStatement /\ Logged("execute")) =>
       /\ Len(Binds) = Len(sqlExecutionInput.params)
       /\ \A p \in 1..Len(Binds) : ~Binds[p].threw
  /\ thrown.error = BIND_ERROR =>
       /\ pc = "thrown"
       /\ ~Logged("execute")
       /\ \A i \in DOMAIN log : log[i].op \notin DrainOps
       /\ result = <<>>
       /\ returned = NoResult
       /\ Len(Binds) <= index + 1
       /\ \A p \in 1..Len(Binds) : Binds[p].index = p
       /\ \A p \in 1..Len(Binds) : Binds[p].threw => p = index + 1

C7_Witness ==
  /\ thrown.error = BIND_ERROR
  /\ pc = "thrown"
  /\ index = 0
  /\ Len(sqlExecutionInput.params) = 2
  /\ Len(Binds) = 1
  /\ Binds[1].threw

\* C8: one collected value is returned as it is, a bare row list or a bare
\* write summary, never as a list of one element; none, or two or more, are
\* returned as the list of all of them.
C8_SingleOutcomeUnwrapped ==
  pc = "returned" =>
    /\ returned.success
    /\ Len(result) = 1 =>
         /\ returned.data = result[1]
         /\ returned.data.json \in {"rows", "object"}
    /\ Len(result) # 1 =>
         /\ returned.data.json = "array"
         /\ returned.data.items = result

C8_Witness ==
  /\ pc = "returned"
  /\ Len(result) = 1
  /\ returned.data = RowsValue(<<UserRow, SentinelNull>>)

\* The sentinel: exactly one row whose only column is GENERATED_KEYS.
IsSentinel(rows) == Len(rows) = 1 /\ DOMAIN rows[1] = {"GENERATED_KEYS"}
NotSentinel(outcome) == ~(outcome.isResultSet /\ IsSentinel(outcome.rows))
KeptOutcomes == SelectSeq(outcomes, NotSentinel)

\* The value an outcome contributes: its parsed rows, or a write summary
\* with its own update count.
ValueOf(value, outcome) ==
  IF outcome.isResultSet
  THEN value.json = "rows" /\ value.rows = outcome.rows
  ELSE value.json = "object" /\ value.affectedRows = outcome.updateCount

\* C9: for any finite driver outcome sequence the collected values follow
\* the driver's order and each outcome that is not a sentinel contributes
\* exactly one: a result set its parsed rows, an update count a write summary
\* with that outcome's own count.  (The one collected value that no outcome
\* contributes is the summary of an execution that reports no outcome.)
C9_CollectedFollowsDriver ==
  pc = "returned" =>
    /\ Len(result) = Len(KeptOutcomes) + (IF outcomes = <<>> THEN 1 ELSE 0)
    /\ \A i \in 1..Len(KeptOutcomes) : ValueOf(result[i], KeptOutcomes[i])

C9_Witness ==
  /\ pc = "returned"
  /\ outcomes = <<ResultSetOutcome(<<UserRow>>), UpdateCountOutcome(3)>>
  /\ Len(result) = 2
  /\ result[1] = RowsValue(<<UserRow>>)
  /\ result[2].affectedRows = 3

IsRows(value) == value.json = "rows"
KeptResultSet(outcome) == outcome.isResultSet /\ ~IsSentinel(outcome.rows)
IsPrefix(s, t) == Len(s) <= Len(t) /\ \A i \in 1..Len(s) : s[i] = t[i]
RowsCollected == SelectSeq(result, IsRows)
RowsExpected ==
  LET kept == SelectSeq(outcomes, KeptResultSet)
  IN [i \in 1..Len(kept) |-> RowsValue(kept[i].rows)]

\* C10: a result set of exactly one row whose only column is GENERATED_KEYS,
\* whatever its value, is never added to the collected outcomes, wherever it
\* comes in the sequence; every other result set is always added.
C10_SentinelDroppedOthersKept ==
  /\ \A i \in DOMAIN result : IsRows(result[i]) => ~IsSentinel(result[i].rows)
  /\ IsPrefix(RowsCollected, RowsExpected)
  /\ pc = "returned" => RowsCollected = RowsExpected

C10_Witness ==
  /\ pc = "returned"
  /\ outcomes = <<ResultSetOutcome(<<UserRowWithKey>>), ResultSetOutcome(<<SentinelKey>>)>>
  /\ result = <<RowsValue(<<UserRowWithKey>>)>>

\* ---------------------------------------------------------------- C11
\* C11: when the call yields a result set, the returned result went through
\* the hint generator: it carries exactly one DUPLICATE_COLUMN message naming
\* the colliding labels joined by "/" when labels repeat, and no message when
\* they are all different; the rows are the same either way.
C11_ResultSetPassesHintGenerator ==
  (/\ pc = "returned"
   /\ Len(outcomes) = 1
   /\ outcomes[1].isResultSet
   /\ ~containsNullGeneratedKeys(outcomes[1].rows)) =>
     returned = parseResultSet(outcomes[1])

\* ---------------------------------------------------------------- C12
\* A driver call other than a bind failed.
DriverFailed == \E i \in DOMAIN log : log[i].threw /\ ~IsSetter(log[i])

\* C12: when a driver call fails while the statement is created, executed or
\* drained, the call ends with a QueryExecutionError whose cause is the
\* driver's exception and returns no result, also when outcomes were already
\* collected.
C12_DriverFailureIsExecutionError ==
  /\ DriverFailed =>
       /\ pc = "thrown"
       /\ thrown.class = "PluginException"
       /\ thrown.error = EXEC_ERROR
       /\ thrown.args = <<SQLException.class>>
       /\ returned = NoResult
  /\ pc = "thrown" => returned = NoResult

C12_Witness ==
  /\ pc = "thrown"
  /\ Len(result) = 1
  /\ log[Len(log) - 2].op = "getMoreResults"
  /\ log[Len(log) - 2].threw
  /\ thrown.error = EXEC_ERROR

\* ---------------------------------------------------------------- C13
StatementOps == {"prepareStatement", "createStatement"}
CallsOf(ops) == {i \in DOMAIN log : log[i].op \in ops}

\* C13: one call creates at most one statement and executes it at most once;
\* after a failed driver call, or a value that cannot be bound, no statement
\* is created, bound or executed any more: the call has ended in its error.
C13_NoRetry ==
  /\ Cardinality(CallsOf(StatementOps)) <= 1
  /\ Cardinality(CallsOf({"execute"})) <= 1
  /\ \A i \in DOMAIN log :
       log[i].threw =>
         /\ pc = "thrown"
         /\ \A j \in (i + 1)..Len(log) :
              log[j].op \notin StatementOps \cup {"execute"} \cup Setters
  /\ thrown # NoException => pc = "thrown"
  /\ pc = "thrown" => thrown # NoException /\ ~ENABLED Next

C13_Witness ==
  /\ pc = "thrown"
  /\ Cardinality(CallsOf(StatementOps)) = 1
  /\ Len(Binds) = 1
  /\ log[Len(log)].op = "execute"
  /\ log[Len(log)].threw

\* ---------------------------------------------------------------- C14
\* C14: no step of an execute call changes the caller's request parameters
\* or query definition; what a structured command's render writes goes to
\* the call's own copy of the map.
C14_CallerContextUnchanged ==
  [][/\ context' = context
     /\ (pc = "start" /\ guiMode(context)) =>
          requestParams' = RenderedMap(context.guiSqlCommand, context.requestParams)]_vars

C14_Witness ==
  /\ pc = "returned"
  /\ guiMode(context)
  /\ context.guiSqlCommand.mutates
  /\ "gui" \in DOMAIN requestParams
  /\ "gui" \notin DOMAIN context.requestParams

\* ---------------------------------------------------------------- C15
\* The turns of the drain loop that reached their end.
Advances == Cardinality(CallsOf({"getMoreResults"}))
LoopLeft == pc \in {"shape", "returned"}

\* C15: every turn of the drain loop advances with one getMoreResults
\* followed by one getUpdateCount; the loop is left exactly when no result
\* set follows and the update count is -1, so never while an outcome of the
\* driver is unprocessed; and it is left after as many turns as the driver
\* has outcomes (one for none): the call is never stuck before its end.
C15_DrainLoopAdvancesAndStops ==
  /\ \A i \in DOMAIN log :
       (log[i].op = "getMoreResults" /\ ~log[i].threw) =>
         \/ i = Len(log) /\ pc = "count"
         \/ i < Len(log) /\ log[i + 1].op = "getUpdateCount"
  /\ \A i \in DOMAIN log :
       (log[i].op = "getUpdateCount" /\ i > 1) =>
         log[i - 1].op \in {"execute", "getMoreResults"}
  /\ LoopLeft =>
       /\ ~isResultSet
       /\ updateCount = -1
       /\ cursor > Len(outcomes)
       /\ Advances = (IF outcomes = <<>> THEN 1 ELSE Len(outcomes))
  /\ (pc = "body" /\ Advances > 0) =>
       /\ isResultSet \/ updateCount # -1
       /\ cursor <= Len(outcomes)
  /\ Advances <= (IF outcomes = <<>> THEN 1 ELSE Len(outcomes))
  /\ cursor <= Len(outcomes) + 1
  /\ \/ Ended
     \/ pc = "bind" /\ index < Len(sqlExecutionInput.params)
     \/ pc # "bind" /\ ENABLED Next

C15_Witness ==
  /\ pc = "returned"
  /\ outcomes = <<UpdateCountOutcome(0), ResultSetOutcome(<<UserRow>>)>>
  /\ Advances = 2
  /\ Len(result) = 2

\* ---------------------------------------------------------------- C16
\* The summary the claim expects for an update count and the generated-key
\* result set the driver handed over.
ExpectedSummary(count, rs) ==
  IF ~rs.isNull /\ Len(rs.keys) >= 1
  THEN [json |-> "object", affectedRows |-> count, generatedKeys |-> rs.keys]
  ELSE [json |-> "object", affectedRows |-> count]

SummaryAdded == pc = "ids" /\ pc' = "more"

\* C16: the summary of an update count carries generatedKeys exactly when
\* the driver's generated-key result set exists and has a row, and then the
\* keys of all its rows in row order; with no such result set, or an empty
\* one, the summary has affectedRows only and the code raises no error; a
\* generated-key result set that was opened is closed when the summary is
\* added.
C16_SummaryCarriesGeneratedKeys ==
  /\ [][/\ SummaryAdded =>
            /\ result' = Append(result, ExpectedSummary(updateCount, generatedKeys.rs))
            /\ generatedKeys'.state # "open"
            /\ generatedKeys.state = "open" =>
                 log'[Len(log')].op = "generatedKeys.close"
        /\ (pc = "ids" /\ generatedKeys.rs.isNull) => pc' = "more"
        /\ (pc = "ids" /\ pc' = "thrown") =>
             /\ log'[Len(log) + 1].op = "getGeneratedIds"
             /\ log'[Len(log) + 2].op = "generatedKeys.close"
             /\ log'[Len(log) + 1].threw \/ log'[Len(log) + 2].threw
             /\ generatedKeys'.state = "closed" <=> ~log'[Len(log) + 2].threw]_vars
  /\ [](generatedKeys.state = "open" =>
          \/ pc = "ids"
          \/ pc = "thrown" /\ \E i \in DOMAIN log :
                                log[i].op = "generatedKeys.close" /\ log[i].threw)
  /\ [](\A i \in DOMAIN result :
          (result[i].json = "object" /\ "generatedKeys" \in DOMAIN result[i]) =>
            result[i].generatedKeys # <<>>)
  /\ [](pc = "ids" => ENABLED (DrainGeneratedIds /\ SummaryAdded))

C16_Witness ==
  /\ pc = "returned"
  /\ Len(result) = 2
  /\ result[1] = [json |-> "object", affectedRows |-> 3, generatedKeys |-> <<41, 42>>]
  /\ result[2] = [json |-> "object", affectedRows |-> 0]
  /\ generatedKeys = [state |-> "closed", rs |-> KeyResultSet(<<>>)]
  /\ Logged("generatedKeys.close")

\* ---------------------------------------------------------------- C17
\* C17: on the text path the plan is not prepared and has no bind values, a
\* plain statement is created, no setter is called, and the substituted sql
\* is executed once with generated keys requested; on the prepared path a
\* prepared statement is created with generated keys requested and all the
\* binds are done before execute is called.
C17_StatementKindFollowsPlan ==
  PlanResolved =>
    /\ ~sqlExecutionInput.preparedStatement =>
         /\ ~guiMode(context) /\ context.disablePreparedStatement
         /\ sqlExecutionInput.params = <<>>
         /\ sqlExecutionInput.sql = renderMustacheString(context.query, context.requestParams)
         /\ ~Logged("prepareStatement")
         /\ Binds = <<>>
         /\ Cardinality(CallsOf({"execute"})) <= 1
         /\ pc \notin {"start", "statement", "thrown"} => Logged("createStatement")
         /\ pc \notin {"start", "statement", "execute", "thrown"} => Logged("execute")
         /\ \A i \in DOMAIN log :
              log[i].op = "execute" =>
                /\ i = 2
                /\ log[1].op = "createStatement"
                /\ log[i].arg = <<sqlExecutionInput.sql, "RETURN_GENERATED_KEYS">>
    /\ sqlExecutionInput.preparedStatement =>
         /\ ~Logged("createStatement")
         /\ \A i \in DOMAIN log :
              log[i].op = "prepareStatement" =>
                /\ i = 1
                /\ log[i].arg = <<sqlExecutionInput.sql, "RETURN_GENERATED_KEYS">>
         /\ \A i \in DOMAIN log :
              log[i].op = "execute" =>
                /\ log[1].op = "prepareStatement"
                /\ log[i].arg = <<>>
                /\ i = Len(sqlExecutionInput.params) + 2
                /\ \A j \in 2..(i - 1) : IsSetter(log[j]) /\ ~log[j].threw
                /\ \A j \in (i + 1)..Len(log) : ~IsSetter(log[j])

C17_Witness ==
  /\ pc = "returned"
  /\ ~sqlExecutionInput.preparedStatement
  /\ sqlExecutionInput.sql = "select 1 7"
  /\ log[1].op = "createStatement"
  /\ log[2] = Call("execute", 0, <<"select 1 7", "RETURN_GENERATED_KEYS">>)

\* ---------------------------------------------------------------- C18
IterationOps == {"getUpdateCount", "getResultSet", "getMoreResults"}
KeyOps == {"getGeneratedKeys", "getGeneratedIds", "generatedKeys.close"}
CloseOps == {"statement.close", "connection.close"}

\* The place of a driver call in the sequence create, bind, execute,
\* iterate, read generated keys, close.
PhaseOf(op) ==
  CASE op \in StatementOps -> 1
    [] op \in Setters -> 2
    [] op = "execute" -> 3
    [] op \in IterationOps -> 4
    [] op \in KeyOps -> 5
    [] op \in CloseOps -> 6

\* The same with the reading of generated keys as a part of the iteration.
DrainPhaseOf(op) == IF op \in KeyOps THEN PhaseOf("getResultSet") ELSE PhaseOf(op)

NoReadAfterClose ==
  \A i \in DOMAIN log :
    log[i].op \in CloseOps =>
      \A j \in (i + 1)..Len(log) : log[j].op \in CloseOps

\* C18 as it is stated: in a successful call the driver calls come in the
\* order create, binds, execute, iteration over result sets and update
\* counts, reading of generated keys, close; generated keys are read only
\* after the iteration.
C18_KeysReadAfterIteration ==
  pc = "returned" =>
    /\ \A i, j \in DOMAIN log : i < j => PhaseOf(log[i].op) <= PhaseOf(log[j].op)
    /\ NoReadAfterClose

\* C18, amended: in a successful call the driver calls come in the order
\* create, all the binds, execute, drain, close, where the generated keys are
\* read inside the drain loop, in the turn of each update count, right after
\* the update count was read and before getMoreResults; nothing is read
\* after the statement or the connection is closed.
C18_KeysReadInsideIteration ==
  pc = "returned" =>
    /\ \A i, j \in DOMAIN log :
         i < j => DrainPhaseOf(log[i].op) <= DrainPhaseOf(log[j].op)
    /\ NoReadAfterClose
    /\ log[1].op \in StatementOps
    /\ Len(Binds) = Len(sqlExecutionInput.params)
    /\ log[Len(Binds) + 2].op = "execute"
    /\ log[Len(log) - 1].op = "statement.close"
    /\ log[Len(log)].op = "connection.close"
    /\ \A i \in DOMAIN log :
         log[i].op = "getGeneratedKeys" =>
           /\ log[i - 1].op = "getUpdateCount"
           /\ log[i + 1].op = "getGeneratedIds"
           /\ \E j \in (i + 2)..(i + 3) :
                /\ log[j].op = "getMoreResults"
                /\ \A k \in (i + 2)..(j - 1) : log[k].op = "generatedKeys.close"
    /\ Cardinality(CallsOf({"getGeneratedKeys"}))
         = Cardinality({i \in DOMAIN result : result[i].json = "object"})

C18_Witness ==
  /\ pc = "returned"
  /\ outcomes = <<UpdateCountOutcome(3), ResultSetOutcome(<<UserRow>>)>>
  /\ Len(Binds) = 1
  /\ \E i, j \in DOMAIN log :
       /\ i < j
       /\ log[i].op = "getGeneratedKeys"
       /\ log[j].op = "getResultSet"

\* ---------------------------------------------------------------- C19
\* C19: the body of the drain loop runs before the loop's first test, so a
\* statement that reports neither a result set nor an update count still
\* gives one summary with affectedRows = -1, returned bare; the collected
\* values are as many as the driver's outcomes without the dropped sentinels
\* only when the driver reports an outcome.
C19_BodyRunsBeforeFirstTest ==
  /\ LoopLeft => Advances >= 1
  /\ pc \in {"body", "ids", "more"} =>
       Advances = Cardinality({i \in DOMAIN log : log[i].op = "getUpdateCount"}) - 1
  /\ (LoopLeft /\ outcomes = <<>>) =>
       /\ Len(KeptOutcomes) = 0
       /\ Len(result) = 1
       /\ result[1].json = "object"
       /\ result[1].affectedRows = -1
  /\ (pc = "returned" /\ outcomes = <<>>) =>
       /\ returned.success
       /\ returned.data = result[1]
  /\ (LoopLeft /\ outcomes # <<>>) => Len(result) = Len(KeptOutcomes)

C19_Witness ==
  /\ pc = "returned"
  /\ outcomes = <<>>
  /\ returned.data = [json |-> "object", affectedRows |-> -1]
  /\ Advances = 1

\* ---------------------------------------------------------------- C20
IntersectingNotifications ==
  {i \in DOMAIN notifications :
     notifications[i] # << >> /\ notifications[i][1].isIntersecting}

\* C20: a mount creates exactly one observer, which the unmount disconnects;
\* endOfList is invoked once for every notification whose first entry is
\* intersecting and for no other; after the unmount it is never invoked; and
\* the callback invoked is always the one supplied at the mount, whatever
\* the parent supplied in later renders.  The callback has no test of its
\* own for the unmount, so a notification that runs after the cleanup breaks
\* the third part.
C20_ObserverLifecycle ==
  /\ [](observers = (IF phase = "new" THEN 0 ELSE 1))
  /\ [](observing <=> phase = "mounted")
  /\ [](Len(invoked) = Cardinality(IntersectingNotifications))
  /\ [](\A i \in DOMAIN invoked : invoked[i] = effectEndOfList)
  /\ [][/\ phase = "new" => effectEndOfList' = endOfList
        /\ phase # "new" => effectEndOfList' = effectEndOfList
        /\ phase # "mounted" => invoked' = invoked
        /\ notifications' # notifications =>
             \E entries \in EntryLists :
               /\ notifications' = Append(notifications, entries)
               /\ invoked' = IF entries # << >> /\ entries[1].isIntersecting
                              THEN Append(invoked, effectEndOfList)
                              ELSE invoked
        /\ invoked' # invoked => notifications' # notifications]_vars

================================================================================
